---- MODULE Spec2Model ----
(***************************************************************************)
(* Model of amazon-bedrock-langfuse-evaluation/utils.py: the trace         *)
(* normaliser (process_traces, extract_span_components,                    *)
(* match_trace_to_test_case) and the 10-K ingestion batch                  *)
(* (process_companies, process_company, get_filings, download_filing,      *)
(* upload_to_s3).                                                          *)
(*                                                                         *)
(* Python values are tagged records: [t |-> "none"], [t |-> "str", s],     *)
(* [t |-> "int", n], [t |-> "list", items], [t |-> "dict", kv].  A string  *)
(* is a sequence of one-character strings, a dict is its sequence of       *)
(* [k, v] items in insertion order.  [t |-> "missing"] stands for an       *)
(* attribute the object does not have (hasattr is False).                  *)
(***************************************************************************)
EXTENDS Integers, Sequences, FiniteSets, TLC

VARIABLES
    \* ---- process_traces / extract_span_components ----
    traces,                \* the argument of process_traces
    test_cases,            \* load_test_cases()
    pc,                    \* position of the control in process_traces
    ti,                    \* number of the trace the for loop is at (0 before the loop)
    multi_turn_samples,    \* process_traces local
    trace_sample_mapping,  \* process_traces local
    user_inputs,           \* extract_span_components locals
    agent_responses,
    retrieved_contexts,
    tool_usages,
    available_tools,
    oi,                    \* observation identifiers consumed by the inner for loop
    components,            \* history: what extract_span_components returned, per trace
    fetch_log,             \* history: identifiers handed to observations.get, per trace
    result,                \* what process_traces returned
    \* ---- the turn loop of process_traces on arbitrary lists ----
    t_pc, t_user_inputs, t_agent_responses, t_i, messages,
    \* ---- match_trace_to_test_case ----
    m_pc, m_user_input, m_test_cases, m_k, m_result,
    \* ---- process_companies / process_company ----
    symbols,               \* the argument of process_companies
    years_back,            \* the argument of process_companies
    source,                \* the filings source: what the query API answers, per symbol
    c_pc,                  \* position of the control in process_companies
    si,                    \* number of the symbol the for loop is at (0 before the loop)
    overall_results,       \* process_companies local
    results,               \* process_company local
    filings,               \* process_company local
    fi,                    \* filings consumed by the for loop of process_company
    pending,               \* the exception on its way to the handler of process_companies
    requested,             \* history: the "size" of each query sent to the filings source
    iter_log,              \* history: per symbol iteration, filings returned and handled
    events,                \* history: starts and ends of iterations, and pauses
    saved,                 \* download_results.json
    \* ---- create_knowledge_base ----
    k_pc,                  \* position of the control in create_knowledge_base
    kb_status,             \* the service: the status of the knowledge base
    knowledge_base_id,     \* create_knowledge_base local
    status,                \* create_knowledge_base local
    k_log,                 \* history: the latest sleeps and polls, in order
    k_result,              \* what create_knowledge_base returned
    \* ---- create_bedrock_execution_role ----
    r_pc,                  \* position of the control in create_bedrock_execution_role
    r_calls,               \* the unique_id of each call, in order
    r_ci,                  \* number of the call under way (0 before the first)
    r_k,                   \* policies consumed by the for loop
    iam_roles,             \* the service: names of the roles that exist
    iam_policies,          \* the service: names of the policies that exist
    iam_attached,          \* the service: <<role, policy>> attachments
    r_outcomes             \* history: how each call ended

traceVars == <<traces, test_cases, pc, ti, multi_turn_samples, trace_sample_mapping,
               user_inputs, agent_responses, retrieved_contexts, tool_usages,
               available_tools, oi, components, fetch_log, result>>
turnVars  == <<t_pc, t_user_inputs, t_agent_responses, t_i, messages>>
matchVars == <<m_pc, m_user_input, m_test_cases, m_k, m_result>>
ingestVars == <<symbols, years_back, source, c_pc, si, overall_results, results, filings,
                fi, pending, requested, iter_log, events, saved>>
kbVars    == <<k_pc, kb_status, knowledge_base_id, status, k_log, k_result>>
roleVars  == <<r_pc, r_calls, r_ci, r_k, iam_roles, iam_policies, iam_attached,
               r_outcomes>>
vars      == <<traceVars, turnVars, matchVars, ingestVars, kbVars, roleVars>>

\* what the steps of one operation leave alone: the state of the others
notTraceVars  == <<turnVars, matchVars, ingestVars, kbVars, roleVars>>
notTurnVars   == <<traceVars, matchVars, ingestVars, kbVars, roleVars>>
notMatchVars  == <<traceVars, turnVars, ingestVars, kbVars, roleVars>>
notIngestVars == <<traceVars, turnVars, matchVars, kbVars, roleVars>>
notKbVars     == <<traceVars, turnVars, matchVars, ingestVars, roleVars>>
notRoleVars   == <<traceVars, turnVars, matchVars, ingestVars, kbVars>>

---------------------------------------------------------------------------
(* Bounds of the model *)

MaxTraces == 2
MaxObs == 3
MaxTurns == 2
MaxInputLen == 2
MaxCatalog == 2
MaxSymbols == 2
MaxFilings == 2
MaxKbLog == 6
MaxCalls == 2

---------------------------------------------------------------------------
(* Python values *)

None == [t |-> "none"]
Missing == [t |-> "missing"]
StrV(s) == [t |-> "str", s |-> s]
IntV(n) == [t |-> "int", n |-> n]
ListV(items) == [t |-> "list", items |-> items]
DictV(kv) == [t |-> "dict", kv |-> kv]
Item(k, v) == [k |-> k, v |-> v]

\* the keys the code looks up
K_args == <<"a", "r", "g", "s">>
K_attributes == <<"a", "t", "t", "r", "i", "b", "u", "t", "e", "s">>
K_agent_tools == <<"a", "g", "e", "n", "t", ".", "t", "o", "o", "l", "s">>
K_other == <<"q">>

\* dict: key in d
HasKey(d, k) == \E j \in DOMAIN d.kv : d.kv[j].k = k
\* dict: d[key], for a key the dict has
Get(d, k) == d.kv[CHOOSE j \in DOMAIN d.kv : d.kv[j].k = k].v

\* bool(v)
PyTruthy(v) ==
    CASE v.t = "none" -> FALSE
      [] v.t = "missing" -> FALSE
      [] v.t = "str" -> Len(v.s) > 0
      [] v.t = "int" -> v.n # 0
      [] v.t = "list" -> Len(v.items) > 0
      [] v.t = "dict" -> Len(v.kv) > 0

\* len(v) is defined for strings, lists and dicts; TypeError otherwise
HasLen(v) == v.t \in {"str", "list", "dict"}
PyLen(v) ==
    CASE v.t = "str" -> Len(v.s)
      [] v.t = "list" -> Len(v.items)
      [] v.t = "dict" -> Len(v.kv)

\* v[0] is defined for a non-empty string or list; on a dict it is the lookup
\* of the key 0 (KeyError: no dict of the model has an integer key), on an
\* int or None a TypeError
CanIndex0(v) == v.t \in {"str", "list"} /\ PyLen(v) > 0
Index0(v) == IF v.t = "str" THEN StrV(<<v.s[1]>>) ELSE v.items[1]

Digits == <<"0", "1", "2", "3", "4", "5", "6", "7", "8", "9">>

RECURSIVE PyRepr(_)
RECURSIVE JoinRepr(_)
RECURSIVE JoinItems(_)

\* ", ".join(repr(e) for e in items)
JoinRepr(items) ==
    IF Len(items) = 0 THEN <<>>
    ELSE IF Len(items) = 1 THEN PyRepr(items[1])
    ELSE PyRepr(items[1]) \o <<",", " ">> \o JoinRepr(Tail(items))

\* ", ".join(repr(k) + ": " + repr(v) for k, v in d.items())
JoinItems(kv) ==
    IF Len(kv) = 0 THEN <<>>
    ELSE LET one == <<"'">> \o kv[1].k \o <<"'", ":", " ">> \o PyRepr(kv[1].v)
         IN  IF Len(kv) = 1 THEN one ELSE one \o <<",", " ">> \o JoinItems(Tail(kv))

\* repr(v)
PyRepr(v) ==
    CASE v.t = "none" -> <<"N", "o", "n", "e">>
      [] v.t = "str" -> <<"'">> \o v.s \o <<"'">>
      [] v.t = "int" -> <<Digits[v.n + 1]>>
      [] v.t = "list" -> <<"[">> \o JoinRepr(v.items) \o <<"]">>
      [] v.t = "dict" -> <<"{">> \o JoinItems(v.kv) \o <<"}">>

\* str(v): a string is itself, everything else prints as its repr
PyStr(v) == IF v.t = "str" THEN v.s ELSE PyRepr(v)

UpperToLower == [c \in {"A", "B", "D", "R", "S"} |->
                    CASE c = "A" -> "a" [] c = "B" -> "b" [] c = "D" -> "d"
                      [] c = "R" -> "r" [] c = "S" -> "s"]

\* s.lower()
PyLower(s) == [j \in DOMAIN s |-> IF s[j] \in DOMAIN UpperToLower
                                  THEN UpperToLower[s[j]] ELSE s[j]]

\* sub in s, on strings
Contains(sub, s) ==
    \E k \in 0..(Len(s) - Len(sub)) : SubSeq(s, k + 1, k + Len(sub)) = sub

RETRIEVE == <<"r", "e", "t", "r", "i", "e", "v", "e">>

---------------------------------------------------------------------------
(* The inputs: traces, observations, the catalog *)

S_question == <<"A", "b">>
S_answer == <<"o", "k">>
S_context == <<"c">>
S_RetrieveDocs == <<"R", "e", "t", "r", "i", "e", "v", "e", "D", "o", "c", "s">>
S_Summarize == <<"S", "u", "m", "m", "a", "r", "i", "z", "e">>
S_retriever == <<"r", "e", "t", "r", "i", "e", "v", "e", "r">>

Observation(name, input, output) == [name |-> name, input |-> input, output |-> output]

ObsIds == {"o_ret", "o_sum", "o_err"}

\* langfuse.api.observations.get(obsID): the observations of the identifier,
\* or a failure of the call.  The same identifier always has the same outcome.
observations_get(obsID) ==
    CASE obsID = "o_ret" ->
            [ok |-> TRUE,
             obs |-> <<Observation(StrV(S_RetrieveDocs), StrV(S_question), StrV(S_context))>>]
      [] obsID = "o_sum" ->
            [ok |-> TRUE,
             obs |-> <<Observation(StrV(S_Summarize), None, ListV(<<IntV(1)>>)),
                       Observation(Missing, StrV(S_question), StrV(S_context)),
                       Observation(StrV(S_retriever), StrV(<<>>), StrV(<<>>)),
                       Observation(StrV(<<>>), None, StrV(S_context))>>]
      [] obsID = "o_err" -> [ok |-> FALSE, obs |-> <<>>]

Args(v) == DictV(<<Item(K_args, v)>>)

\* shapes of trace.input
Inputs ==
    { Missing, None, StrV(S_question), StrV(<<>>), IntV(3),
      Args(ListV(<<StrV(S_question)>>)),
      Args(ListV(<<IntV(7), StrV(S_question)>>)),
      Args(ListV(<<>>)),
      Args(None),
      Args(StrV(S_question)),
      Args(DictV(<<Item(K_other, StrV(S_question))>>)),
      DictV(<<Item(K_other, StrV(S_question))>>) }

\* shapes of trace.output
Outputs == { None, StrV(S_answer), IntV(4) }

\* shapes of trace.metadata
Metadatas ==
    { Missing,
      DictV(<<>>),
      DictV(<<Item(K_other, IntV(1))>>),
      DictV(<<Item(K_attributes, DictV(<<>>))>>),
      DictV(<<Item(K_attributes, DictV(<<Item(K_agent_tools, ListV(<<StrV(S_Summarize)>>))>>))>>),
      DictV(<<Item(K_attributes, None)>>) }

SeqsUpTo(S, n) == UNION { [1..k -> S] : k \in 0..n }

\* shapes of trace.observations
ObservationLists == { Missing, None } \cup { ListV(s) : s \in SeqsUpTo(ObsIds, MaxObs) }

Trace(input, output, metadata, observations) ==
    [input |-> input, output |-> output, metadata |-> metadata, observations |-> observations]

\* every trace shape, for the runs of extract_span_components on one trace
RichTraces ==
    { Trace(i, o, m, obsl) : i \in Inputs, o \in Outputs, m \in Metadatas,
                              obsl \in ObservationLists }

\* the trace shapes of the batches handed to process_traces
BatchTraces ==
    { Trace(i, o, Missing, obsl) :
        i \in { None, StrV(S_question), IntV(3), Args(ListV(<<StrV(S_question)>>)),
                Args(ListV(<<>>)), Args(DictV(<<Item(K_other, StrV(S_question))>>)) },
        o \in { None, StrV(S_answer) },
        obsl \in { None, ListV(<<"o_ret">>) } }

TraceIds == <<"t1", "t2", "t3", "t4", "t5">>

\* the traces of a batch carry distinct identifiers
WithIds(s) == [j \in DOMAIN s |->
                 [id |-> TraceIds[j], input |-> s[j].input, output |-> s[j].output,
                  metadata |-> s[j].metadata, observations |-> s[j].observations]]

TestCase(query, expected_answer) == [query |-> query, expected_answer |-> expected_answer]

\* test_cases.json
Catalogs ==
    { <<>>,
      <<TestCase(<<"a", "b">>, StrV(<<"4", "2">>)), TestCase(<<"b">>, StrV(<<"7">>))>> }

---------------------------------------------------------------------------
(* match_trace_to_test_case *)

\* a comparison that forgets to lower-case
QueryMatchesCaseSensitive(test_case, user_input) ==
    Contains(test_case.query, user_input)

\* test_case["query"].lower() in user_input.lower()
QueryMatches(test_case, user_input) ==
    Contains(PyLower(test_case.query), PyLower(user_input))

RECURSIVE ScanFrom(_, _, _)
\* the for loop from the k-th test case on; falling off the loop returns None
ScanFrom(user_input, cases, k) ==
    IF k > Len(cases) THEN None
    ELSE IF QueryMatches(cases[k], user_input) THEN cases[k].expected_answer
    ELSE ScanFrom(user_input, cases, k + 1)

match_trace_to_test_case(user_input, cases) == ScanFrom(user_input, cases, 1)

---------------------------------------------------------------------------
(* process_traces: the turns of one sample *)

Message(role, content) == [role |-> role, content |-> content]

\* an iteration that pads the missing side with a blank turn
TurnsAtPadded(uis, ars, i) ==
    <<Message("user", IF i < Len(uis) THEN uis[i + 1] ELSE <<>>),
      Message("assistant", IF i < Len(ars) THEN ars[i + 1] ELSE <<>>)>>

\* one iteration of the for loop over range(max(len, len)); i counts from 0
TurnsAt(uis, ars, i) ==
    (IF i < Len(uis) THEN <<Message("user", uis[i + 1])>> ELSE <<>>)
    \o (IF i < Len(ars) THEN <<Message("assistant", ars[i + 1])>> ELSE <<>>)

Max(a, b) == IF a >= b THEN a ELSE b

RECURSIVE TurnsFrom(_, _, _)
TurnsFrom(uis, ars, i) ==
    IF i >= Max(Len(uis), Len(ars)) THEN <<>>
    ELSE TurnsAt(uis, ars, i) \o TurnsFrom(uis, ars, i + 1)

BuildMessages(uis, ars) == TurnsFrom(uis, ars, 0)

---------------------------------------------------------------------------
(* extract_span_components, step by step *)

Raise == pc' = "raised"

\* a derivation in which a mapping with an empty args falls through to str(input)
InputOutcomeFallsBack(input) ==
    IF input.t \in {"missing", "none"} THEN [raised |-> FALSE, add |-> <<>>]
    ELSE IF input.t = "dict" /\ HasKey(input, K_args) /\ PyTruthy(Get(input, K_args)) THEN
        LET a == Get(input, K_args) IN
        IF ~HasLen(a) THEN [raised |-> TRUE, add |-> <<>>]
        ELSE IF ~CanIndex0(a) THEN [raised |-> TRUE, add |-> <<>>]
        ELSE [raised |-> FALSE, add |-> <<PyStr(Index0(a))>>]
    ELSE IF input.t = "str" THEN [raised |-> FALSE, add |-> <<input.s>>]
    ELSE [raised |-> FALSE, add |-> <<PyStr(input)>>]

\* the first trace.input branch: what it appends to user_inputs, or that it raises
InputOutcome(input) ==
    IF input.t \in {"missing", "none"} THEN [raised |-> FALSE, add |-> <<>>]
    ELSE IF input.t = "dict" /\ HasKey(input, K_args) THEN
        LET a == Get(input, K_args) IN
        IF ~PyTruthy(a) THEN [raised |-> FALSE, add |-> <<>>]
        ELSE IF ~HasLen(a) THEN [raised |-> TRUE, add |-> <<>>]
        ELSE IF ~(PyLen(a) > 0) THEN [raised |-> FALSE, add |-> <<>>]
        ELSE IF ~CanIndex0(a) THEN [raised |-> TRUE, add |-> <<>>]
        ELSE [raised |-> FALSE, add |-> <<PyStr(Index0(a))>>]
    ELSE IF input.t = "str" THEN [raised |-> FALSE, add |-> <<input.s>>]
    ELSE [raised |-> FALSE, add |-> <<PyStr(input)>>]

\* what trace.output appends to agent_responses
OutputAdds(output) ==
    IF output.t \in {"missing", "none"} THEN <<>>
    ELSE IF output.t = "str" THEN <<output.s>>
    ELSE <<PyStr(output)>>

\* the tool-usage entries of one observation
ToolUsageOf(obs) ==
    IF obs.name.t # "missing" /\ PyTruthy(obs.name)
    THEN << [name |-> PyStr(obs.name),
             input |-> IF obs.input.t # "missing" /\ PyTruthy(obs.input) THEN obs.input ELSE None,
             output |-> IF obs.output.t # "missing" /\ PyTruthy(obs.output) THEN obs.output ELSE None] >>
    ELSE <<>>

\* a capture that looks for "retrieve" in the name as written
ContextOfCaseSensitive(obs) ==
    IF obs.name.t # "missing" /\ PyTruthy(obs.name)
       /\ Contains(RETRIEVE, PyStr(obs.name))
       /\ obs.output.t # "missing" /\ PyTruthy(obs.output)
    THEN <<PyStr(obs.output)>>
    ELSE <<>>

\* the retrieved-context entries of one observation
ContextOf(obs) ==
    IF obs.name.t # "missing" /\ PyTruthy(obs.name)
       /\ Contains(RETRIEVE, PyLower(PyStr(obs.name)))
       /\ obs.output.t # "missing" /\ PyTruthy(obs.output)
    THEN <<PyStr(obs.output)>>
    ELSE <<>>

RECURSIVE ToolUsagesOf(_)
ToolUsagesOf(obsSeq) ==
    IF Len(obsSeq) = 0 THEN <<>>
    ELSE ToolUsageOf(obsSeq[1]) \o ToolUsagesOf(Tail(obsSeq))

RECURSIVE ContextsOf(_)
ContextsOf(obsSeq) ==
    IF Len(obsSeq) = 0 THEN <<>>
    ELSE ContextOf(obsSeq[1]) \o ContextsOf(Tail(obsSeq))

\* the metadata branch: the binding of available_tools, or that it raises
MetadataOutcome(metadata) ==
    IF metadata.t = "missing" \/ ~PyTruthy(metadata)
    THEN [raised |-> FALSE, bound |-> FALSE, v |-> None]
    ELSE IF ~HasKey(metadata, K_attributes)
    THEN [raised |-> FALSE, bound |-> FALSE, v |-> None]
    ELSE LET attributes == Get(metadata, K_attributes) IN
         IF attributes.t # "dict" THEN [raised |-> TRUE, bound |-> FALSE, v |-> None]
         ELSE IF HasKey(attributes, K_agent_tools)
         THEN [raised |-> FALSE, bound |-> TRUE, v |-> Get(attributes, K_agent_tools)]
         ELSE [raised |-> FALSE, bound |-> FALSE, v |-> None]

trace == traces[ti]

Unbound == [bound |-> FALSE, v |-> None]

\* a call whose lists outlive the call (module-level accumulators)
EnterExtractKeepsLists ==
    /\ pc = "loop"
    /\ ti < Len(traces)
    /\ ti' = ti + 1
    /\ available_tools' = Unbound
    /\ oi' = 0
    /\ fetch_log' = Append(fetch_log, <<>>)
    /\ pc' = "input"
    /\ UNCHANGED <<traces, test_cases, multi_turn_samples, trace_sample_mapping,
                   user_inputs, agent_responses, retrieved_contexts, tool_usages,
                   components, result>>
    /\ UNCHANGED notTraceVars

\* process_traces l.717-718 and extract_span_components l.758-761: the loop
\* takes the next trace and calls extract_span_components, whose lists start empty
EnterExtract ==
    /\ pc = "loop"
    /\ ti < Len(traces)
    /\ ti' = ti + 1
    /\ user_inputs' = <<>>
    /\ agent_responses' = <<>>
    /\ retrieved_contexts' = <<>>
    /\ tool_usages' = <<>>
    /\ available_tools' = Unbound
    /\ oi' = 0
    /\ fetch_log' = Append(fetch_log, <<>>)
    /\ pc' = "input"
    /\ UNCHANGED <<traces, test_cases, multi_turn_samples, trace_sample_mapping,
                   components, result>>
    /\ UNCHANGED notTraceVars

\* l.764-771
ExtractInput ==
    /\ pc = "input"
    /\ LET out == InputOutcome(trace.input) IN
         IF out.raised
         THEN Raise /\ UNCHANGED user_inputs
         ELSE /\ user_inputs' = user_inputs \o out.add
              /\ pc' = "output"
    /\ UNCHANGED <<traces, test_cases, ti, multi_turn_samples, trace_sample_mapping,
                   agent_responses, retrieved_contexts, tool_usages, available_tools,
                   oi, components, fetch_log, result>>
    /\ UNCHANGED notTraceVars

\* l.773-777
ExtractOutput ==
    /\ pc = "output"
    /\ agent_responses' = agent_responses \o OutputAdds(trace.output)
    /\ pc' = "obs"
    /\ UNCHANGED <<traces, test_cases, ti, multi_turn_samples, trace_sample_mapping,
                   user_inputs, retrieved_contexts, tool_usages, available_tools,
                   oi, components, fetch_log, result>>
    /\ UNCHANGED notTraceVars

\* l.780-781, 799-800: trace.observations cannot be iterated (no such attribute,
\* or None); the exception is caught by the try around the loop
ObservationsNotIterable ==
    /\ pc = "obs"
    /\ trace.observations.t # "list"
    /\ pc' = "meta"
    /\ UNCHANGED <<traces, test_cases, ti, multi_turn_samples, trace_sample_mapping,
                   user_inputs, agent_responses, retrieved_contexts, tool_usages,
                   available_tools, oi, components, fetch_log, result>>
    /\ UNCHANGED notTraceVars

\* l.781-800: one iteration of the loop over trace.observations.  A failed
\* fetch raises inside the try that encloses the whole loop: the handler runs
\* and the loop is over.
FetchObservation ==
    /\ pc = "obs"
    /\ trace.observations.t = "list"
    /\ oi < Len(trace.observations.items)
    /\ LET obsID == trace.observations.items[oi + 1]
           got == observations_get(obsID)
       IN /\ fetch_log' = [fetch_log EXCEPT ![ti] = Append(@, obsID)]
          /\ oi' = oi + 1
          /\ IF got.ok
             THEN /\ tool_usages' = tool_usages \o ToolUsagesOf(got.obs)
                  /\ retrieved_contexts' = retrieved_contexts \o ContextsOf(got.obs)
                  /\ pc' = "obs"
             ELSE /\ UNCHANGED <<tool_usages, retrieved_contexts>>
                  /\ pc' = "meta"
    /\ UNCHANGED <<traces, test_cases, ti, multi_turn_samples, trace_sample_mapping,
                   user_inputs, agent_responses, available_tools, components, result>>
    /\ UNCHANGED notTraceVars

\* l.781: the loop over trace.observations is exhausted
ObservationsDone ==
    /\ pc = "obs"
    /\ trace.observations.t = "list"
    /\ oi = Len(trace.observations.items)
    /\ pc' = "meta"
    /\ UNCHANGED <<traces, test_cases, ti, multi_turn_samples, trace_sample_mapping,
                   user_inputs, agent_responses, retrieved_contexts, tool_usages,
                   available_tools, oi, components, fetch_log, result>>
    /\ UNCHANGED notTraceVars

ComponentSet(ui, ar, rc, tu, at) ==
    [user_inputs |-> ui, agent_responses |-> ar, retrieved_contexts |-> rc,
     tool_usages |-> tu, available_tools |-> IF at.bound THEN at.v ELSE ListV(<<>>)]

\* l.802-814: the metadata branch and the return
ExtractMetadata ==
    /\ pc = "meta"
    /\ LET out == MetadataOutcome(trace.metadata) IN
         IF out.raised
         THEN Raise /\ UNCHANGED <<available_tools, components>>
         ELSE /\ available_tools' = [bound |-> out.bound, v |-> out.v]
              /\ components' = Append(components,
                    ComponentSet(user_inputs, agent_responses, retrieved_contexts,
                                 tool_usages, [bound |-> out.bound, v |-> out.v]))
              /\ pc' = "build"
    /\ UNCHANGED <<traces, test_cases, ti, multi_turn_samples, trace_sample_mapping,
                   user_inputs, agent_responses, retrieved_contexts, tool_usages,
                   oi, fetch_log, result>>
    /\ UNCHANGED notTraceVars

---------------------------------------------------------------------------
(* process_traces *)

MultiTurnSample(user_input, reference) == [user_input |-> user_input, reference |-> reference]

MappingEntry(trace_id, index) == [trace_id |-> trace_id, type |-> "multi_turn", index |-> index]

\* an entry that takes the length, not the position, of the appended sample
MappingEntryForLength(tr, samples) == MappingEntry(tr.id, Len(samples))

\* l.743-747: the entry appended after the sample was appended to samples
MappingEntryFor(tr, samples) == MappingEntry(tr.id, Len(samples) - 1)

\* l.720-747: the body of the loop after extract_span_components returned
BuildSample ==
    /\ pc = "build"
    /\ LET c == components[Len(components)] IN
         IF Len(c.user_inputs) > 0
         THEN LET first_user_input == c.user_inputs[1]
                  msgs == BuildMessages(c.user_inputs, c.agent_responses)
                  expected_answer == match_trace_to_test_case(first_user_input, test_cases)
                  samples == Append(multi_turn_samples, MultiTurnSample(msgs, expected_answer))
              IN /\ multi_turn_samples' = samples
                 /\ trace_sample_mapping' =
                        Append(trace_sample_mapping, MappingEntryFor(trace, samples))
         ELSE UNCHANGED <<multi_turn_samples, trace_sample_mapping>>
    /\ pc' = "loop"
    /\ UNCHANGED <<traces, test_cases, ti, user_inputs, agent_responses, retrieved_contexts,
                   tool_usages, available_tools, oi, components, fetch_log, result>>
    /\ UNCHANGED notTraceVars

NoResult == [returned |-> FALSE, multi_turn_samples |-> <<>>, trace_sample_mapping |-> <<>>]

\* l.749-752
ReturnSamples ==
    /\ pc = "loop"
    /\ ti = Len(traces)
    /\ result' = [returned |-> TRUE, multi_turn_samples |-> multi_turn_samples,
                  trace_sample_mapping |-> trace_sample_mapping]
    /\ pc' = "done"
    /\ UNCHANGED <<traces, test_cases, ti, multi_turn_samples, trace_sample_mapping,
                   user_inputs, agent_responses, retrieved_contexts, tool_usages,
                   available_tools, oi, components, fetch_log>>
    /\ UNCHANGED notTraceVars

---------------------------------------------------------------------------
(* The 10-K ingestion: filings and the filings source *)

\* a filing record of the filings source: which of the fields the code reads
\* it holds, whether the render API delivers its HTML and whether S3 takes it
Filing(link, accessionNo, period, render, upload) ==
    [linkToFilingDetails |-> link, accessionNo |-> accessionNo, periodOfReport |-> period,
     render |-> render, upload |-> upload]

F_good == Filing(TRUE, TRUE, TRUE, TRUE, TRUE)
F_render_fails == Filing(TRUE, TRUE, TRUE, FALSE, TRUE)
F_upload_fails == Filing(TRUE, TRUE, TRUE, TRUE, FALSE)
F_no_link == Filing(FALSE, TRUE, TRUE, TRUE, TRUE)
F_no_period == Filing(TRUE, TRUE, FALSE, TRUE, TRUE)
F_no_accession == Filing(TRUE, FALSE, TRUE, TRUE, TRUE)
F_no_accession_render_fails == Filing(TRUE, FALSE, TRUE, FALSE, TRUE)
F_no_accession_no_link == Filing(FALSE, FALSE, TRUE, TRUE, TRUE)

FilingKinds == { F_good, F_render_fails, F_upload_fails, F_no_link, F_no_period,
                 F_no_accession, F_no_accession_render_fails, F_no_accession_no_link }

\* the filing kinds of the batches of several companies
BatchFilingKinds == { F_good, F_render_fails, F_no_accession_no_link }

Symbols == { "AAA", "BBB" }

\* what the query API does for a symbol: it raises, or it has these filings
QueryFails == [ok |-> FALSE, filings |-> <<>>]
QueryReturns(fs) == [ok |-> TRUE, filings |-> fs]

\* l.529: the default of get_filings' years_back; l.465, l.566: the same default
DEFAULT_YEARS_BACK == 5

YearsBack == { 1, DEFAULT_YEARS_BACK }

Take(s, n) == SubSeq(s, 1, IF n < Len(s) THEN n ELSE Len(s))

Msg(msg, symbol, filing, e) == [msg |-> msg, symbol |-> symbol, filing |-> filing, e |-> e]

\* l.478-484
NewResults(symbol) ==
    [symbol |-> symbol, total_filings |-> 0, downloaded |-> 0, uploaded |-> 0, errors |-> <<>>]

\* l.584-592
NewOverall ==
    [companies_processed |-> 0, total_filings_found |-> 0, total_downloaded |-> 0,
     total_uploaded |-> 0, company_results |-> <<>>, ended |-> FALSE]

\* company_results is a dict: its items in insertion order; an assignment to a
\* key it has replaces the value in place
HasSymbol(cr, symbol) == \E j \in DOMAIN cr : cr[j].symbol = symbol
SetItem(cr, symbol, res) ==
    IF HasSymbol(cr, symbol)
    THEN [j \in DOMAIN cr |-> IF cr[j].symbol = symbol THEN res ELSE cr[j]]
    ELSE Append(cr, res)
GetItem(cr, symbol) == cr[CHOOSE j \in DOMAIN cr : cr[j].symbol = symbol]

\* l.387-413 download_filing: "path" when the file was written, "none" when
\* the handler returned None, "raise" when the handler itself raised (its log
\* line reads filing['accessionNo'])
download_filing(filing) ==
    IF filing.render /\ filing.periodOfReport THEN "path"
    ELSE IF filing.accessionNo THEN "none"
    ELSE "raise"

\* l.415-455 upload_to_s3: True or False, never an exception
upload_to_s3(filing) == filing.upload

\* l.500-525: what one iteration of the filing loop does: "uploaded",
\* "upload_failed", "download_failed", "process_error" (the handler of l.522
\* recorded the exception) or "escape" (the handler itself raised KeyError on
\* filing['accessionNo'] and the exception leaves process_company)
FilingOutcome(filing) ==
    LET tried == IF ~filing.linkToFilingDetails THEN "raise"
                 ELSE download_filing(filing)
    IN  CASE tried = "path" -> IF upload_to_s3(filing) THEN "uploaded" ELSE "upload_failed"
          [] tried = "none" -> "download_failed"
          [] tried = "raise" -> IF filing.accessionNo THEN "process_error" ELSE "escape"

symbol == symbols[si]

Event(what, n) == [what |-> what, n |-> n]

\* l.594-597, 476-491, 529-564: the loop takes the next symbol and calls
\* process_company, which calls get_filings(symbol): the query asks for the
\* default number of filings, whatever years_back process_company was given.
\* The query may raise; on an empty answer response["filings"][0] raises
\* IndexError; both leave process_company.
StartCompany ==
    /\ c_pc = "loop"
    /\ si < Len(symbols)
    /\ si' = si + 1
    /\ LET sym == symbols[si + 1]
           answer == source[sym]
           size == DEFAULT_YEARS_BACK
           got == Take(answer.filings, size)
       IN /\ results' = [NewResults(sym) EXCEPT !.total_filings = IF answer.ok THEN Len(got) ELSE 0]
          /\ requested' = Append(requested, size)
          /\ events' = Append(events, Event("start", si + 1))
          /\ IF ~answer.ok
             THEN /\ pending' = "APIError"
                  /\ c_pc' = "except"
                  /\ filings' = <<>>
                  /\ iter_log' = Append(iter_log, [returned |-> -1, handled |-> 0])
             ELSE IF Len(got) = 0
             THEN /\ pending' = "IndexError"
                  /\ c_pc' = "except"
                  /\ filings' = <<>>
                  /\ iter_log' = Append(iter_log, [returned |-> 0, handled |-> 0])
             ELSE /\ pending' = ""
                  /\ c_pc' = "filings"
                  /\ filings' = got
                  /\ iter_log' = Append(iter_log, [returned |-> Len(got), handled |-> 0])
    /\ fi' = 0
    /\ UNCHANGED <<symbols, years_back, source, overall_results, saved>>
    /\ UNCHANGED notIngestVars

\* a variant of ProcessFiling: the else branch of l.517-518 is missing, a failed
\* upload leaves no message
ProcessFilingSilentUploadFailure ==
    /\ c_pc = "filings"
    /\ fi < Len(filings)
    /\ fi' = fi + 1
    /\ LET filing == filings[fi + 1]
           outcome == FilingOutcome(filing)
       IN /\ iter_log' = [iter_log EXCEPT ![si].handled = @ + 1]
          /\ CASE outcome = "uploaded" ->
                    /\ results' = [results EXCEPT !.downloaded = @ + 1, !.uploaded = @ + 1]
                    /\ UNCHANGED <<c_pc, pending>>
               [] outcome = "upload_failed" ->
                    /\ results' = [results EXCEPT !.downloaded = @ + 1]
                    /\ UNCHANGED <<c_pc, pending>>
               [] outcome = "download_failed" ->
                    /\ results' = [results EXCEPT
                                      !.errors = Append(@, Msg("Failed to download filing", symbol, fi + 1, ""))]
                    /\ UNCHANGED <<c_pc, pending>>
               [] outcome = "process_error" ->
                    /\ results' = [results EXCEPT
                                      !.errors = Append(@, Msg("Error processing filing", symbol, fi + 1, "KeyError"))]
                    /\ UNCHANGED <<c_pc, pending>>
               [] outcome = "escape" ->
                    /\ pending' = "KeyError"
                    /\ c_pc' = "except"
                    /\ UNCHANGED results
    /\ UNCHANGED <<symbols, years_back, source, si, overall_results, filings, requested,
                   events, saved>>
    /\ UNCHANGED notIngestVars

\* l.500-525: one iteration of the loop over the filings
ProcessFiling ==
    /\ c_pc = "filings"
    /\ fi < Len(filings)
    /\ fi' = fi + 1
    /\ LET filing == filings[fi + 1]
           outcome == FilingOutcome(filing)
       IN /\ iter_log' = [iter_log EXCEPT ![si].handled = @ + 1]
          /\ CASE outcome = "uploaded" ->
                    /\ results' = [results EXCEPT !.downloaded = @ + 1, !.uploaded = @ + 1]
                    /\ UNCHANGED <<c_pc, pending>>
               [] outcome = "upload_failed" ->
                    /\ results' = [results EXCEPT !.downloaded = @ + 1,
                                      !.errors = Append(@, Msg("Failed to upload", symbol, fi + 1, ""))]
                    /\ UNCHANGED <<c_pc, pending>>
               [] outcome = "download_failed" ->
                    /\ results' = [results EXCEPT
                                      !.errors = Append(@, Msg("Failed to download filing", symbol, fi + 1, ""))]
                    /\ UNCHANGED <<c_pc, pending>>
               [] outcome = "process_error" ->
                    /\ results' = [results EXCEPT
                                      !.errors = Append(@, Msg("Error processing filing", symbol, fi + 1, "KeyError"))]
                    /\ UNCHANGED <<c_pc, pending>>
               [] outcome = "escape" ->
                    /\ pending' = "KeyError"
                    /\ c_pc' = "except"
                    /\ UNCHANGED results
    /\ UNCHANGED <<symbols, years_back, source, si, overall_results, filings, requested,
                   events, saved>>
    /\ UNCHANGED notIngestVars

\* l.527, 598-609: process_company returns its results; process_companies
\* stores them under the symbol and adds them to the totals
FinishCompany ==
    /\ c_pc = "filings"
    /\ fi = Len(filings)
    /\ overall_results' =
          [overall_results EXCEPT
              !.company_results = SetItem(@, symbol, results),
              !.companies_processed = @ + 1,
              !.total_filings_found = @ + results.total_filings,
              !.total_downloaded = @ + results.downloaded,
              !.total_uploaded = @ + results.uploaded]
    /\ c_pc' = "sleep"
    /\ UNCHANGED <<symbols, years_back, source, si, results, filings, fi, pending,
                   requested, iter_log, events, saved>>
    /\ UNCHANGED notIngestVars

\* l.611-612: time.sleep(1), the last statement of the try block
Sleep ==
    /\ c_pc = "sleep"
    /\ events' = Append(Append(events, Event("end", si)), Event("sleep", 1))
    /\ c_pc' = "loop"
    /\ UNCHANGED <<symbols, years_back, source, si, overall_results, results, filings, fi,
                   pending, requested, iter_log, saved>>
    /\ UNCHANGED notIngestVars

\* l.614-624: the handler of process_companies records the failed company
CompanyFailed ==
    /\ c_pc = "except"
    /\ overall_results' =
          [overall_results EXCEPT
              !.company_results =
                  SetItem(@, symbol,
                          [NewResults(symbol) EXCEPT
                              !.errors = <<Msg("Error processing company", symbol, 0, pending)>>])]
    /\ events' = Append(events, Event("end", si))
    /\ pending' = ""
    /\ c_pc' = "loop"
    /\ UNCHANGED <<symbols, years_back, source, si, results, filings, fi, requested,
                   iter_log, saved>>
    /\ UNCHANGED notIngestVars

NotSaved == [written |-> FALSE, content |-> NewOverall]

\* l.626-632: the loop is over; the results are stamped, saved and returned
ReturnOverall ==
    /\ c_pc = "loop"
    /\ si = Len(symbols)
    /\ overall_results' = [overall_results EXCEPT !.ended = TRUE]
    /\ saved' = [written |-> TRUE, content |-> [overall_results EXCEPT !.ended = TRUE]]
    /\ c_pc' = "done"
    /\ UNCHANGED <<symbols, years_back, source, si, results, filings, fi, pending,
                   requested, iter_log, events>>
    /\ UNCHANGED notIngestVars

IngestIdle ==
    /\ symbols = <<>> /\ years_back = 0 /\ source = [s \in Symbols |-> QueryFails]
    /\ c_pc = "idle" /\ si = 0 /\ overall_results = NewOverall
    /\ results = NewResults("") /\ filings = <<>> /\ fi = 0 /\ pending = ""
    /\ requested = <<>> /\ iter_log = <<>> /\ events = <<>> /\ saved = NotSaved

\* l.566-592: process_companies is called
IngestStart ==
    /\ years_back \in YearsBack
    /\ c_pc = "loop" /\ si = 0 /\ overall_results = NewOverall
    /\ results = NewResults("") /\ filings = <<>> /\ fi = 0 /\ pending = ""
    /\ requested = <<>> /\ iter_log = <<>> /\ events = <<>> /\ saved = NotSaved

---------------------------------------------------------------------------
(* create_knowledge_base (l.295-354): the creation and the status polling *)

PROPAGATION_SLEEP == 60
POLL_SLEEP == 30

KbIds == { "KB1", "KB2" }

\* the statuses the service reports once it has left CREATING
SettledStatuses == { "ACTIVE", "FAILED", "DELETE_UNSUCCESSFUL" }

Slept(seconds) == [what |-> "sleep", seconds |-> seconds, observed |-> ""]
Polled(st) == [what |-> "poll", seconds |-> 0, observed |-> st]

\* k_log keeps the latest MaxKbLog events
Logged(e) ==
    IF Len(k_log) < MaxKbLog THEN Append(k_log, e) ELSE Append(Tail(k_log), e)

\* l.296-298: time.sleep(60)
WaitForPropagation ==
    /\ k_pc = "start"
    /\ k_log' = Logged(Slept(PROPAGATION_SLEEP))
    /\ k_pc' = "create"
    /\ UNCHANGED <<kb_status, knowledge_base_id, status, k_result>>
    /\ UNCHANGED notKbVars

\* l.301-333: bedrock.create_knowledge_base answers with the identifier of a
\* knowledge base in creation, or raises; status = "CREATING"
CreateKb ==
    /\ k_pc = "create"
    /\ \/ \E id \in KbIds :
            /\ knowledge_base_id' = id
            /\ kb_status' = "CREATING"
            /\ status' = "CREATING"
            /\ k_pc' = "while"
       \/ /\ k_pc' = "raised"
          /\ UNCHANGED <<kb_status, knowledge_base_id, status>>
    /\ UNCHANGED <<k_log, k_result>>
    /\ UNCHANGED notKbVars

\* l.335-344: while status == "CREATING": get_knowledge_base answers,
\* status = response['knowledgeBase']['status']
Poll ==
    /\ k_pc = "while"
    /\ status = "CREATING"
    /\ status' = kb_status
    /\ k_log' = Logged(Polled(kb_status))
    /\ k_pc' = "polled"
    /\ UNCHANGED <<kb_status, knowledge_base_id, k_result>>
    /\ UNCHANGED notKbVars

\* l.337-339: get_knowledge_base raises; no handler in create_knowledge_base
PollRaises ==
    /\ k_pc = "while"
    /\ status = "CREATING"
    /\ k_pc' = "raised"
    /\ UNCHANGED <<kb_status, knowledge_base_id, status, k_log, k_result>>
    /\ UNCHANGED notKbVars

\* l.346-348: if status == "CREATING": time.sleep(30)
WaitAndRetry ==
    /\ k_pc = "polled"
    /\ status = "CREATING"
    /\ k_log' = Logged(Slept(POLL_SLEEP))
    /\ k_pc' = "while"
    /\ UNCHANGED <<kb_status, knowledge_base_id, status, k_result>>
    /\ UNCHANGED notKbVars

\* a variant of ReturnId: the wait is given up after one poll, whatever it saw
ReturnIdAfterFirstPoll ==
    /\ k_pc = "polled"
    /\ k_result' = knowledge_base_id
    /\ k_pc' = "returned"
    /\ UNCHANGED <<kb_status, knowledge_base_id, status, k_log>>
    /\ UNCHANGED notKbVars

\* l.349-354: else: break; return knowledge_base_id
ReturnId ==
    /\ k_pc = "polled"
    /\ status # "CREATING"
    /\ k_result' = knowledge_base_id
    /\ k_pc' = "returned"
    /\ UNCHANGED <<kb_status, knowledge_base_id, status, k_log>>
    /\ UNCHANGED notKbVars

\* the service finishes the creation, well or badly, when it pleases
ServiceSettles ==
    /\ kb_status = "CREATING"
    /\ kb_status' \in SettledStatuses
    /\ UNCHANGED <<k_pc, knowledge_base_id, status, k_log, k_result>>
    /\ UNCHANGED notKbVars

KbIdle ==
    /\ k_pc = "idle" /\ kb_status = "NONE" /\ knowledge_base_id = ""
    /\ status = "" /\ k_log = <<>> /\ k_result = ""

\* l.295: create_knowledge_base is called
KbStart ==
    /\ k_pc = "start" /\ kb_status = "NONE" /\ knowledge_base_id = ""
    /\ status = "" /\ k_log = <<>> /\ k_result = ""

---------------------------------------------------------------------------
(* create_bedrock_execution_role (l.110-224), called once or several times *)

UniqueIds == { "u1", "u2" }

\* l.206
RoleName(unique_id) == [prefix |-> "kb_execution_role_s3_vector_", unique_id |-> unique_id]

\* l.197-201
PolicyPrefixes ==
    << "foundation-model-policy_", "cloudwatch-logs-policy_", "s3-bucket_", "s3vector_" >>

PolicyName(k, unique_id) == [prefix |-> PolicyPrefixes[k], unique_id |-> unique_id]

PolicyNames(unique_id) == { PolicyName(k, unique_id) : k \in DOMAIN PolicyPrefixes }

\* the policies attached to a role
AttachedTo(attached, role) == { a[2] : a \in { b \in attached : b[1] = role } }

Outcome(unique_id, how, attached) ==
    [unique_id |-> unique_id, how |-> how, attached |-> attached]

unique_id == r_calls[r_ci]

\* l.203-211: iam_client.create_role; the service refuses a name that exists
\* (EntityAlreadyExists) or fails for a reason of its own; no handler
CreateRole ==
    /\ r_pc = "call"
    /\ r_ci < Len(r_calls)
    /\ r_ci' = r_ci + 1
    /\ r_k' = 0
    /\ LET uid == r_calls[r_ci + 1]
           role == RoleName(uid)
       IN  IF role \in iam_roles
             THEN /\ r_outcomes' = Append(r_outcomes,
                        Outcome(uid, "EntityAlreadyExists", AttachedTo(iam_attached, role)))
                  /\ r_pc' = "call"
                  /\ UNCHANGED iam_roles
             ELSE \/ /\ iam_roles' = iam_roles \cup { role }
                     /\ r_pc' = "policies"
                     /\ UNCHANGED r_outcomes
                  \/ /\ r_outcomes' = Append(r_outcomes, Outcome(uid, "ServiceError", {}))
                     /\ r_pc' = "call"
                     /\ UNCHANGED iam_roles
    /\ UNCHANGED <<r_calls, iam_policies, iam_attached>>
    /\ UNCHANGED notRoleVars

\* l.213-222: one iteration of the for loop: iam_client.create_policy, then
\* iam_client.attach_role_policy; no handler
CreateAndAttachPolicy ==
    /\ r_pc = "policies"
    /\ r_k < Len(PolicyPrefixes)
    /\ r_k' = r_k + 1
    /\ LET role == RoleName(unique_id)
           policy == PolicyName(r_k + 1, unique_id)
       IN  IF policy \in iam_policies
             THEN /\ r_outcomes' = Append(r_outcomes,
                        Outcome(unique_id, "EntityAlreadyExists", AttachedTo(iam_attached, role)))
                  /\ r_pc' = "call"
                  /\ UNCHANGED <<iam_policies, iam_attached>>
             ELSE \/ /\ iam_policies' = iam_policies \cup { policy }
                     /\ iam_attached' = iam_attached \cup { <<role, policy>> }
                     /\ UNCHANGED <<r_pc, r_outcomes>>
                  \/ \* create_policy fails
                     /\ r_outcomes' = Append(r_outcomes,
                           Outcome(unique_id, "ServiceError", AttachedTo(iam_attached, role)))
                     /\ r_pc' = "call"
                     /\ UNCHANGED <<iam_policies, iam_attached>>
                  \/ \* attach_role_policy fails
                     /\ iam_policies' = iam_policies \cup { policy }
                     /\ r_outcomes' = Append(r_outcomes,
                           Outcome(unique_id, "ServiceError", AttachedTo(iam_attached, role)))
                     /\ r_pc' = "call"
                     /\ UNCHANGED iam_attached
    /\ UNCHANGED <<r_calls, r_ci, iam_roles>>
    /\ UNCHANGED notRoleVars

\* l.224: return bedrock_kb_execution_role
ReturnRole ==
    /\ r_pc = "policies"
    /\ r_k = Len(PolicyPrefixes)
    /\ r_outcomes' = Append(r_outcomes,
          Outcome(unique_id, "returned", AttachedTo(iam_attached, RoleName(unique_id))))
    /\ r_pc' = "call"
    /\ UNCHANGED <<r_calls, r_ci, r_k, iam_roles, iam_policies, iam_attached>>
    /\ UNCHANGED notRoleVars

RoleIdle ==
    /\ r_pc = "idle" /\ r_calls = <<>> /\ r_ci = 0 /\ r_k = 0
    /\ iam_roles = {} /\ iam_policies = {} /\ iam_attached = {} /\ r_outcomes = <<>>

---------------------------------------------------------------------------
(* The operations at rest, and the calls of process_traces *)

TraceIdle ==
    /\ traces = <<>> /\ test_cases = <<>> /\ pc = "idle" /\ ti = 0
    /\ multi_turn_samples = <<>> /\ trace_sample_mapping = <<>>
    /\ user_inputs = <<>> /\ agent_responses = <<>> /\ retrieved_contexts = <<>>
    /\ tool_usages = <<>> /\ available_tools = Unbound /\ oi = 0
    /\ components = <<>> /\ fetch_log = <<>> /\ result = NoResult

TurnIdle ==
    /\ t_pc = "idle" /\ t_user_inputs = <<>> /\ t_agent_responses = <<>>
    /\ t_i = 0 /\ messages = <<>>

MatchIdle ==
    /\ m_pc = "idle" /\ m_user_input = <<>> /\ m_test_cases = <<>>
    /\ m_k = 0 /\ m_result = None

\* l.711-715: process_traces is called on a batch
TraceStart(batch) ==
    /\ traces = WithIds(batch)
    /\ test_cases \in Catalogs
    /\ pc = "loop"
    /\ ti = 0
    /\ multi_turn_samples = <<>>
    /\ trace_sample_mapping = <<>>
    /\ user_inputs = <<>> /\ agent_responses = <<>> /\ retrieved_contexts = <<>>
    /\ tool_usages = <<>> /\ available_tools = Unbound /\ oi = 0
    /\ components = <<>> /\ fetch_log = <<>> /\ result = NoResult

Init ==
    /\ \E batch \in SeqsUpTo(BatchTraces, MaxTraces) : TraceStart(batch)
    /\ TurnIdle
    /\ MatchIdle
    /\ IngestIdle
    /\ KbIdle
    /\ RoleIdle

\* process_traces on a batch that holds the same trace twice
InitRerun ==
    /\ \E tr \in RichTraces : TraceStart(<<tr, tr>>)
    /\ TurnIdle
    /\ MatchIdle
    /\ IngestIdle
    /\ KbIdle
    /\ RoleIdle

Next ==
    \/ EnterExtract
    \/ ExtractInput
    \/ ExtractOutput
    \/ ObservationsNotIterable
    \/ FetchObservation
    \/ ObservationsDone
    \/ ExtractMetadata
    \/ BuildSample
    \/ ReturnSamples

Spec == Init /\ [][Next]_vars

SpecRerun == InitRerun /\ [][Next]_vars

---------------------------------------------------------------------------
(* The turn loop of process_traces (l.727-732), one iteration per step, on   *)
(* lists of any two lengths                                                  *)

Contents == { <<"a">>, <<"b">> }

InitTurns ==
    /\ t_user_inputs \in SeqsUpTo(Contents, MaxTurns)
    /\ t_agent_responses \in SeqsUpTo(Contents, MaxTurns)
    /\ t_pc = "loop"
    /\ t_i = 0
    /\ messages = <<>>
    /\ TraceIdle
    /\ MatchIdle
    /\ IngestIdle
    /\ KbIdle
    /\ RoleIdle

\* l.728-732: one iteration
TurnIteration ==
    /\ t_pc = "loop"
    /\ t_i < Max(Len(t_user_inputs), Len(t_agent_responses))
    /\ messages' = messages \o TurnsAt(t_user_inputs, t_agent_responses, t_i)
    /\ t_i' = t_i + 1
    /\ UNCHANGED <<t_pc, t_user_inputs, t_agent_responses>>
    /\ UNCHANGED notTurnVars

\* l.728: the range is exhausted
TurnsDone ==
    /\ t_pc = "loop"
    /\ t_i = Max(Len(t_user_inputs), Len(t_agent_responses))
    /\ t_pc' = "done"
    /\ UNCHANGED <<t_user_inputs, t_agent_responses, t_i, messages>>
    /\ UNCHANGED notTurnVars

NextTurns ==
    \/ TurnIteration
    \/ TurnsDone

SpecTurns == InitTurns /\ [][NextTurns]_vars

---------------------------------------------------------------------------
(* match_trace_to_test_case (l.866-870), one test case per step              *)

MatchChars == { "a", "A", "b" }
MatchQueries == SeqsUpTo({ "a", "B" }, 1) \cup { <<"A", "b">> }
MatchAnswers == { StrV(<<"x">>), StrV(<<"y">>) }
MatchCases == { TestCase(q, e) : q \in MatchQueries, e \in MatchAnswers }

InitMatch ==
    /\ m_user_input \in SeqsUpTo(MatchChars, MaxInputLen)
    /\ m_test_cases \in SeqsUpTo(MatchCases, MaxCatalog)
    /\ m_pc = "scan"
    /\ m_k = 1
    /\ m_result = None
    /\ TraceIdle
    /\ TurnIdle
    /\ IngestIdle
    /\ KbIdle
    /\ RoleIdle

\* l.868-870: the loop looks at the next test case
MatchExamine ==
    /\ m_pc = "scan"
    /\ m_k <= Len(m_test_cases)
    /\ IF QueryMatches(m_test_cases[m_k], m_user_input)
       THEN /\ m_result' = m_test_cases[m_k].expected_answer
            /\ m_pc' = "returned"
            /\ UNCHANGED m_k
       ELSE /\ m_k' = m_k + 1
            /\ UNCHANGED <<m_result, m_pc>>
    /\ UNCHANGED <<m_user_input, m_test_cases>>
    /\ UNCHANGED notMatchVars

\* l.868: the loop ends without a return; the function returns None
MatchFallOff ==
    /\ m_pc = "scan"
    /\ m_k > Len(m_test_cases)
    /\ m_result' = None
    /\ m_pc' = "returned"
    /\ UNCHANGED <<m_user_input, m_test_cases, m_k>>
    /\ UNCHANGED notMatchVars

NextMatch ==
    \/ MatchExamine
    \/ MatchFallOff

SpecMatch == InitMatch /\ [][NextMatch]_vars

---------------------------------------------------------------------------
(* The 10-K ingestion: the batches *)

BatchAnswers ==
    { QueryFails } \cup { QueryReturns(fs) : fs \in SeqsUpTo(BatchFilingKinds, MaxFilings) }

\* a batch of symbols, a symbol possibly more than once
InitIngest ==
    /\ symbols \in SeqsUpTo(Symbols, MaxSymbols)
    /\ source \in [Symbols -> BatchAnswers]
    /\ IngestStart
    /\ TraceIdle
    /\ TurnIdle
    /\ MatchIdle
    /\ KbIdle
    /\ RoleIdle

CompanyAnswers ==
    { QueryFails } \cup { QueryReturns(fs) : fs \in SeqsUpTo(FilingKinds, MaxFilings + 1) }

\* one company, with filings of every kind
InitCompany ==
    /\ symbols = <<"AAA">>
    /\ \E a \in CompanyAnswers : source = [s \in Symbols |-> IF s = "AAA" THEN a ELSE QueryFails]
    /\ IngestStart
    /\ TraceIdle
    /\ TurnIdle
    /\ MatchIdle
    /\ KbIdle
    /\ RoleIdle

NextIngest ==
    \/ StartCompany
    \/ ProcessFiling
    \/ FinishCompany
    \/ Sleep
    \/ CompanyFailed
    \/ ReturnOverall

SpecIngest == InitIngest /\ [][NextIngest]_vars

SpecCompany == InitCompany /\ [][NextIngest]_vars

---------------------------------------------------------------------------
(* create_knowledge_base: one call, against a service that may settle at any *)
(* moment or stay in creation for ever                                      *)

InitKb ==
    /\ KbStart
    /\ TraceIdle
    /\ TurnIdle
    /\ MatchIdle
    /\ IngestIdle
    /\ RoleIdle

NextKb ==
    \/ WaitForPropagation
    \/ CreateKb
    \/ Poll
    \/ PollRaises
    \/ WaitAndRetry
    \/ ReturnId
    \/ ServiceSettles

\* the steps of the program: a sleep ends, a call to the service is answered
KbProgram ==
    WaitForPropagation \/ CreateKb \/ Poll \/ PollRaises \/ WaitAndRetry \/ ReturnId

\* the program is never stopped for ever; nothing is assumed of the service
SpecKb == InitKb /\ [][NextKb]_vars /\ WF_vars(KbProgram)

---------------------------------------------------------------------------
(* create_bedrock_execution_role: up to MaxCalls calls in a row on one       *)
(* account                                                                   *)

InitRole ==
    /\ r_calls \in SeqsUpTo(UniqueIds, MaxCalls)
    /\ r_pc = "call" /\ r_ci = 0 /\ r_k = 0
    /\ iam_roles = {} /\ iam_policies = {} /\ iam_attached = {} /\ r_outcomes = <<>>
    /\ TraceIdle
    /\ TurnIdle
    /\ MatchIdle
    /\ IngestIdle
    /\ KbIdle

NextRole ==
    \/ CreateRole
    \/ CreateAndAttachPolicy
    \/ ReturnRole

SpecRole == InitRole /\ [][NextRole]_vars

---------------------------------------------------------------------------
(* Properties *)

Min(a, b) == IF a <= b THEN a ELSE b

LetterPairs == { {"a", "A"}, {"b", "B"}, {"d", "D"}, {"r", "R"}, {"s", "S"} }
SameLetter(c, d) == c = d \/ {c, d} \in LetterPairs

\* q occurs in u when the case of the letters is ignored
OccursIn(q, u) ==
    \E off \in 0..(Len(u) - Len(q)) : \A j \in 1..Len(q) : SameLetter(q[j], u[off + j])

\* the trace derives a non-empty user_inputs
HasUserInput(tr) == InputOutcome(tr.input).add # <<>>

EntriesFor(tr) ==
    { k \in DOMAIN result.trace_sample_mapping : result.trace_sample_mapping[k].trace_id = tr.id }

\* C1: when process_traces is over, each trace of the batch with a non-empty
\* derived user_inputs has exactly one mapping entry (and sample) in the
\* emitted result, each trace with an empty one has none, the entries are in
\* the order of the traces, and the number of samples, of mapping entries and
\* of traces with user input are equal.
C1_OneSamplePerTraceWithInput ==
    pc \in {"done", "raised"} =>
        /\ \A j \in DOMAIN traces :
              Cardinality(EntriesFor(traces[j])) = IF HasUserInput(traces[j]) THEN 1 ELSE 0
        /\ \A k, l \in DOMAIN result.trace_sample_mapping :
              k < l => \E i, j \in DOMAIN traces :
                          /\ i < j
                          /\ result.trace_sample_mapping[k].trace_id = traces[i].id
                          /\ result.trace_sample_mapping[l].trace_id = traces[j].id
        /\ Len(result.multi_turn_samples) = Len(result.trace_sample_mapping)
        /\ Len(result.multi_turn_samples)
              = Cardinality({ j \in DOMAIN traces : HasUserInput(traces[j]) })

\* position (from 1) of the user turn of index i (from 0), nar assistant turns in all
UserPos(i, nar) == i + Min(i, nar) + 1
\* position (from 1) of the assistant turn of index j (from 0), nui user turns in all
AssistantPos(j, nui) == j + Min(j + 1, nui) + 1

\* C2: the turns built from user_inputs and agent_responses of any lengths
\* are, index by index, the user turn then the assistant turn, a missing side
\* adding nothing: len(user_inputs) + len(agent_responses) turns in all.
C2_TurnsInterleaved ==
    t_pc = "done" =>
        /\ Len(messages) = Len(t_user_inputs) + Len(t_agent_responses)
        /\ \A i \in 0..(Len(t_user_inputs) - 1) :
              messages[UserPos(i, Len(t_agent_responses))]
                  = [role |-> "user", content |-> t_user_inputs[i + 1]]
        /\ \A j \in 0..(Len(t_agent_responses) - 1) :
              messages[AssistantPos(j, Len(t_user_inputs))]
                  = [role |-> "assistant", content |-> t_agent_responses[j + 1]]

\* [a, b] and [x] gave [user:a, assistant:x, user:b]
C2_Witness ==
    /\ t_pc = "done"
    /\ Len(t_user_inputs) = 2
    /\ Len(t_agent_responses) = 1
    /\ messages = << [role |-> "user", content |-> t_user_inputs[1]],
                     [role |-> "assistant", content |-> t_agent_responses[1]],
                     [role |-> "user", content |-> t_user_inputs[2]] >>

Matching == { k \in DOMAIN m_test_cases : OccursIn(m_test_cases[k].query, m_user_input) }
FirstMatching == CHOOSE k \in Matching : \A l \in Matching : k <= l

\* C3: match_trace_to_test_case returns the expected_answer of the first
\* catalog entry whose query occurs in user_input, case ignored, and None when
\* no entry does.
C3_FirstMatchWins ==
    m_pc = "returned" =>
        IF Matching = {} THEN m_result = None
        ELSE m_result = m_test_cases[FirstMatching].expected_answer

\* two entries match, only when case is ignored, and they hold different answers
C3_Witness ==
    /\ m_pc = "returned"
    /\ Cardinality(Matching) >= 2
    /\ \E k \in Matching : m_test_cases[k].expected_answer # m_result
    /\ ~Contains(m_test_cases[FirstMatching].query, m_user_input)
    /\ m_result = m_test_cases[FirstMatching].expected_answer

C3_WitnessNone ==
    /\ m_pc = "returned" /\ Len(m_test_cases) >= 2 /\ Matching = {} /\ m_result = None

\* the traces whose loop body is over
Built == IF pc = "build" THEN Len(components) - 1 ELSE Len(components)

RECURSIVE ProducersUpTo(_)
\* the numbers of the traces, among the first n, that derived a user input
ProducersUpTo(n) ==
    IF n = 0 THEN <<>>
    ELSE IF components[n].user_inputs # <<>> THEN Append(ProducersUpTo(n - 1), n)
    ELSE ProducersUpTo(n - 1)

\* C4: in every state of process_traces and in its result, the mapping is as
\* long as the samples, its k-th entry (from 0) has index k, type
\* "multi_turn" and the id of the trace that produced the k-th sample, and a
\* trace without user input has no entry.
C4_MappingTracksSamples ==
    LET prod == ProducersUpTo(Built) IN
    /\ Len(trace_sample_mapping) = Len(multi_turn_samples)
    /\ Len(trace_sample_mapping) = Len(prod)
    /\ \A k \in DOMAIN trace_sample_mapping :
          /\ trace_sample_mapping[k].index = k - 1
          /\ trace_sample_mapping[k].type = "multi_turn"
          /\ trace_sample_mapping[k].trace_id = traces[prod[k]].id
          /\ multi_turn_samples[k].user_input[1].content = components[prod[k]].user_inputs[1]
    /\ result.returned =>
          /\ result.trace_sample_mapping = trace_sample_mapping
          /\ result.multi_turn_samples = multi_turn_samples

\* two traces gave two samples, and a trace without user input was dropped
\* ahead of one with user input
C4_Witness ==
    /\ pc = "done"
    /\ Len(traces) = 2
    /\ \/ /\ Len(result.trace_sample_mapping) = 2
          /\ result.trace_sample_mapping[2].index = 1
          /\ result.trace_sample_mapping[2].trace_id = traces[2].id
       \/ /\ components[1].user_inputs = <<>>
          /\ Len(result.trace_sample_mapping) = 1
          /\ result.trace_sample_mapping[1].trace_id = traces[2].id

C4_WitnessTwo ==
    /\ pc = "done"
    /\ Len(result.trace_sample_mapping) = 2
    /\ result.trace_sample_mapping[2].index = 1

IsMapping(v) == v.t = "dict"

\* the user_inputs the claim's case list gives for a trace.input
ClaimedUserInputs(input) ==
    IF /\ IsMapping(input) /\ HasKey(input, K_args)
       /\ Get(input, K_args).t = "list" /\ Len(Get(input, K_args).items) > 0
    THEN <<PyStr(Get(input, K_args).items[1])>>
    ELSE IF input.t = "str" THEN <<input.s>>
    ELSE IF input.t \notin {"missing", "none"} THEN <<PyStr(input)>>
    ELSE <<>>

RECURSIVE ProcessedObs(_)
\* the observations of the identifiers whose fetch succeeded, in order
ProcessedObs(ids) ==
    IF Len(ids) = 0 THEN <<>>
    ELSE (IF observations_get(ids[1]).ok THEN observations_get(ids[1]).obs ELSE <<>>)
         \o ProcessedObs(Tail(ids))

NonEmpty(v) == v.t # "missing" /\ v # None /\ v # StrV(<<>>) /\ v # ListV(<<>>) /\ v # DictV(<<>>)
IsNamed(obs) == obs.name.t = "str" /\ Len(obs.name.s) > 0
IsRetrieval(obs) == IsNamed(obs) /\ OccursIn(RETRIEVE, obs.name.s) /\ NonEmpty(obs.output)

ExpectedToolUsages(obsSeq) ==
    LET named == SelectSeq(obsSeq, IsNamed) IN
    [k \in DOMAIN named |->
        [name |-> named[k].name.s,
         input |-> IF NonEmpty(named[k].input) THEN named[k].input ELSE None,
         output |-> IF NonEmpty(named[k].output) THEN named[k].output ELSE None]]

ExpectedContexts(obsSeq) ==
    LET ret == SelectSeq(obsSeq, IsRetrieval) IN
    [k \in DOMAIN ret |-> PyStr(ret[k].output)]

\* C6: of the observations extract_span_components has processed, those with
\* a non-empty name each gave one tool_usages entry {name, input, output}, and
\* those whose name holds "retrieve" (case ignored) and whose output is
\* non-empty each gave, in addition, str(output) in retrieved_contexts; nothing
\* else is in either list, so each context has its tool usage and
\* len(retrieved_contexts) <= len(tool_usages).
C6_ToolCapture ==
    ti >= 1 =>
        LET obsSeq == ProcessedObs(fetch_log[ti]) IN
        /\ tool_usages = ExpectedToolUsages(obsSeq)
        /\ retrieved_contexts = ExpectedContexts(obsSeq)
        /\ Len(retrieved_contexts) <= Len(tool_usages)
        /\ \A c \in DOMAIN retrieved_contexts :
              \E u \in DOMAIN tool_usages :
                  /\ tool_usages[u].output # None
                  /\ PyStr(tool_usages[u].output) = retrieved_contexts[c]
                  /\ OccursIn(RETRIEVE, tool_usages[u].name)

\* RetrieveDocs was recorded in both lists, Summarize in tool_usages only
C6_Witness ==
    /\ ti >= 1
    /\ pc = "meta"
    /\ fetch_log[ti] = <<"o_sum", "o_ret">>
    /\ Len(tool_usages) = 3
    /\ tool_usages[1].name = S_Summarize
    /\ tool_usages[3].name = S_RetrieveDocs
    /\ retrieved_contexts = <<S_context>>

\* C7: when the loop over trace.observations is over, every identifier of the
\* trace was fetched, and tool_usages and retrieved_contexts hold the entries
\* of all the observations whose fetch succeeded, wherever a failing
\* identifier stands in the list.
C7_FetchFailureIsolated ==
    (ti >= 1 /\ pc \in {"meta", "build"} /\ trace.observations.t = "list") =>
        /\ fetch_log[ti] = trace.observations.items
        /\ tool_usages = ExpectedToolUsages(ProcessedObs(trace.observations.items))
        /\ retrieved_contexts = ExpectedContexts(ProcessedObs(trace.observations.items))

\* C8: extract_span_components never raises.
C8_NeverRaises == pc # "raised"

SameTrace(a, b) ==
    /\ a.input = b.input /\ a.output = b.output
    /\ a.metadata = b.metadata /\ a.observations = b.observations

\* C9: two runs of extract_span_components on the same trace, the fetcher
\* answering each identifier as before, return the same five lists, and the
\* trace is as it was.
C9_RerunIdentical ==
    /\ Len(traces) = 2 /\ SameTrace(traces[1], traces[2])
    /\ \A i, j \in DOMAIN components :
          SameTrace(traces[i], traces[j]) => components[i] = components[j]
    /\ \A i \in DOMAIN fetch_log : \A j \in DOMAIN fetch_log :
          (i < j /\ (j < ti \/ pc \in {"meta", "build", "loop", "done"}))
              => fetch_log[i] = fetch_log[j]

\* both runs returned, with a user input, a response, tool usages and a context
C9_Witness ==
    /\ Len(components) = 2
    /\ components[2].user_inputs # <<>>
    /\ components[2].agent_responses # <<>>
    /\ components[2].tool_usages # <<>>
    /\ components[2].retrieved_contexts # <<>>
    /\ components[2].available_tools # ListV(<<>>)

\* the filings the source handed to the i-th symbol iteration
ReturnedTo(i) == Take(source[symbols[i]].filings, requested[i])

\* C10: when process_companies is over, every symbol had its iteration; in
\* every iteration that got filings, each filing was processed, whatever
\* happened to the filings before it, and each filing that was not uploaded
\* (download or upload failed, or its processing raised, a record without
\* linkToFilingDetails or accessionNo included) has a message in the errors
\* list of its company; a company that failed entirely has an entry with a
\* non-empty errors list in company_results.
C10_FailuresDoNotAbortSiblings ==
    c_pc = "done" =>
        /\ Len(iter_log) = Len(symbols)
        /\ \A i \in DOMAIN iter_log :
              /\ HasSymbol(overall_results.company_results, symbols[i])
              /\ iter_log[i].returned <= 0 =>
                    GetItem(overall_results.company_results, symbols[i]).errors # <<>>
              /\ iter_log[i].returned > 0 =>
                    /\ iter_log[i].handled = iter_log[i].returned
                    /\ \A k \in DOMAIN ReturnedTo(i) :
                          FilingOutcome(ReturnedTo(i)[k]) # "uploaded" =>
                              \E e \in DOMAIN GetItem(overall_results.company_results, symbols[i]).errors :
                                  GetItem(overall_results.company_results, symbols[i]).errors[e].filing = k


PollsAt == { i \in DOMAIN k_log : k_log[i].what = "poll" }

\* two polls with no poll between them
ConsecutivePolls(i, j) ==
    /\ i \in PollsAt /\ j \in PollsAt /\ i < j
    /\ \A m \in PollsAt : ~(i < m /\ m < j)

\* a return follows a poll that saw a status other than CREATING, and hands
\* back the identifier the creation gave
ReturnedAfterSettledPoll ==
    k_pc = "returned" =>
        /\ k_log # <<>>
        /\ k_log[Len(k_log)].what = "poll"
        /\ k_log[Len(k_log)].observed # "CREATING"
        /\ k_log[Len(k_log)].observed = status
        /\ kb_status # "CREATING"
        /\ k_result = knowledge_base_id
        /\ k_result \in KbIds

\* between two consecutive polls that saw CREATING lies one sleep of 30 seconds
\* and nothing else; a poll that saw another status is the last event
OneWaitBetweenPolls ==
    /\ \A i \in PollsAt : \A j \in PollsAt :
          ConsecutivePolls(i, j) =>
              /\ k_log[i].observed = "CREATING"
              /\ j = i + 2
              /\ k_log[i + 1] = Slept(POLL_SLEEP)
    /\ \A i \in PollsAt : k_log[i].observed # "CREATING" => i = Len(k_log)

\* C11: create_knowledge_base returns the knowledge-base id only after a poll
\* has observed a status other than CREATING; between two consecutive polls that
\* observed CREATING there is exactly one 30-second wait; while the service stays
\* in CREATING the operation does not return; once the service has left
\* CREATING the loop ends, and once a poll has reported the other status,
\* whichever it is, the operation returns.
C11_PollsUntilSettled ==
    /\ [](ReturnedAfterSettledPoll /\ OneWaitBetweenPolls)
    /\ [](kb_status = "CREATING" => k_pc # "returned")
    /\ (kb_status \in SettledStatuses) ~> (k_pc \in { "returned", "raised" })
    /\ \A st \in SettledStatuses :
          (k_pc = "polled" /\ status = st) ~> (k_pc = "returned" /\ status = st)

\* C11 witness: the operation has returned after polls that saw CREATING, each
\* followed by its wait, and a last poll that saw a failure status
C11_Witness ==
    /\ k_pc = "returned"
    /\ status = "FAILED"
    /\ \E i \in PollsAt : k_log[i].observed = "CREATING" /\ i + 2 \in PollsAt
    /\ Len(k_log) >= 4

\* C11 witness: the service is still in CREATING after as many polls and waits
\* as the history holds, and the operation is still polling
C11_WitnessStillPolling ==
    /\ k_pc = "while"
    /\ kb_status = "CREATING"
    /\ Len(k_log) = MaxKbLog
    /\ \A i \in DOMAIN k_log : k_log[i].what = "poll" => k_log[i].observed = "CREATING"
    /\ \A i \in DOMAIN k_log : k_log[i] # Slept(PROPAGATION_SLEEP)

StartsAt == { j \in DOMAIN events : events[j].what = "start" /\ events[j].n > 1 }

\* C12: between the end of the processing of a symbol and the start of the
\* processing of the next one there is one pause of one second, for every pair
\* of consecutive symbols, whether the earlier symbol's processing succeeded or
\* failed.
C12_PauseBetweenSymbols ==
    \A j \in StartsAt :
        /\ j > 2
        /\ events[j - 1] = Event("sleep", 1)
        /\ events[j - 2] = Event("end", events[j].n - 1)

AllAttached(o) == o.attached = PolicyNames(o.unique_id)

\* C13: a call of create_bedrock_execution_role that meets a role or policies
\* that already exist (a second call with the same unique_id, a call after one
\* that failed part-way) retrieves them and returns the role with all four
\* policies attached, instead of failing: unless the service itself fails, every
\* call returns with the four policies attached.
C13_ExistingRetrieved ==
    \A j \in DOMAIN r_outcomes :
        r_outcomes[j].how # "ServiceError" =>
            /\ r_outcomes[j].how = "returned"
            /\ AllAttached(r_outcomes[j])

\* a first call on a fresh account returns the role with its four policies
C13_FreshCallReturns ==
    \A j \in DOMAIN r_outcomes :
        (\A i \in 1..(j - 1) : r_calls[i] # r_calls[j]) /\ r_outcomes[j].how # "ServiceError"
            => r_outcomes[j].how = "returned" /\ AllAttached(r_outcomes[j])

\* C14: process_companies and process_company look back the number of filings
\* given by their years_back argument: every query asks the filings source for
\* years_back filings, and no company's total_filings exceeds years_back.
C14_YearsBackHonoured ==
    /\ \A i \in DOMAIN requested : requested[i] = years_back
    /\ c_pc \in { "filings", "sleep" } => results.total_filings <= years_back
    /\ \A i \in DOMAIN overall_results.company_results :
          overall_results.company_results[i].total_filings <= years_back

\* the iterations of process_companies whose query was answered with no filings
EmptyAnswers == { i \in DOMAIN iter_log : iter_log[i].returned = 0 }

\* C15: when the filings source returns an empty list of filings for a symbol,
\* process_company returns normally with total_filings, downloaded and uploaded
\* 0 and errors holding the one message "No 10K filings found for <symbol>", and
\* process_companies counts that symbol in companies_processed.
C15_EmptyAnswerReported ==
    /\ \A i \in EmptyAnswers :
          i < si \/ c_pc \in { "loop", "done" } =>
              /\ HasSymbol(overall_results.company_results, symbols[i])
              /\ (\A j \in (i + 1)..si : symbols[j] # symbols[i]) =>
                    GetItem(overall_results.company_results, symbols[i]) =
                        [ NewResults(symbols[i]) EXCEPT
                            !.errors = << Msg("No 10K filings found for", symbols[i], 0, "") >> ]
    /\ c_pc = "done" => overall_results.companies_processed >= Cardinality(EmptyAnswers)

RECURSIVE Sum(_)
Sum(ns) == IF ns = <<>> THEN 0 ELSE Head(ns) + Sum(Tail(ns))

DistinctSymbols == { symbols[i] : i \in DOMAIN symbols }

\* the iterations that ended without a company-level exception are those
\* followed by the pause
CompletedIterations == { j \in DOMAIN events : events[j].what = "sleep" }

TotalsAreSums(o) ==
    LET cr == o.company_results
    IN  /\ o.total_filings_found = Sum([j \in DOMAIN cr |-> cr[j].total_filings])
        /\ o.total_downloaded = Sum([j \in DOMAIN cr |-> cr[j].downloaded])
        /\ o.total_uploaded = Sum([j \in DOMAIN cr |-> cr[j].uploaded])

OneEntryPerSymbol(o) ==
    LET cr == o.company_results
    IN  /\ Len(cr) = Cardinality(DistinctSymbols)
        /\ { cr[j].symbol : j \in DOMAIN cr } = DistinctSymbols

\* C16: after process_companies returns, for every list of symbols (lists that
\* repeat a symbol and runs in which companies fail included), each total equals
\* the sum of the matching count over the entries of company_results,
\* company_results has one entry per distinct symbol, and companies_processed is
\* the number of iterations that completed without a company-level exception.
C16_TotalsMatchCompanyResults ==
    c_pc = "done" =>
        /\ TotalsAreSums(overall_results)
        /\ OneEntryPerSymbol(overall_results)
        /\ overall_results.companies_processed = Cardinality(CompletedIterations)

\* the same on lists that name each symbol once
C16_OnDistinctSymbols ==
    Len(symbols) = Cardinality(DistinctSymbols) => C16_TotalsMatchCompanyResults

\* the counts of one company's result, against the filings handled so far
CountsInOrder(res, handled) ==
    /\ res.uploaded <= res.downloaded
    /\ res.downloaded <= handled
    /\ handled <= res.total_filings

\* one filing handled inside the loop: uploaded grows by one or errors gains
\* one message, never both, never neither
OneUploadOrOneError ==
    c_pc = "filings" /\ c_pc' = "filings" /\ fi' = fi + 1 =>
        \/ /\ results'.uploaded = results.uploaded + 1
           /\ results'.errors = results.errors
        \/ /\ results'.uploaded = results.uploaded
           /\ Len(results'.errors) = Len(results.errors) + 1
           /\ SubSeq(results'.errors, 1, Len(results.errors)) = results.errors

====
